---- MODULE Spec2Model ----
(***************************************************************************)
(* A model of pydaemon.py: start/stop of a daemon tracked by one PID file. *)
(* Every OS process that runs code of pydaemon.py is one entry of the      *)
(* process table below; one action is one system call (or one run of       *)
(* process-local code between two system calls) of one process.            *)
(***************************************************************************)
EXTENDS Integers, Sequences, FiniteSets, TLC

(* ------------------------------ bounds -------------------------------- *)
\* number of start/stop commands invoked when commands may overlap
MaxCalls == 2
\* number of start/stop commands invoked when they come one after the other
MaxCallsSeq == 3
\* size of the process table available to the program (fork needs a free slot)
MaxProcs == 6
\* the lowest process id handed out to the program's processes
FirstPid == 97
\* the largest process id written and read back in the round trip
MaxPid == 120

(* ------------------------- program constants -------------------------- *)
\* range(10): the retry budget of stop
Attempts == 10
\* time.sleep(2): the pause after each SIGKILL
SleepInterval == 2

(* ------------------------------ the OS -------------------------------- *)
Pids == FirstPid .. (FirstPid + MaxProcs - 1)
\* pid 1 (init) always exists and belongs to another user: signalling it is EPERM
InitPid == 1
\* a pid in no process table slot: names no process, ever
GhostPid == 96

Terminal == {"exited", "returned", "crashed", "killed"}

(* --------------------------- PID file text ---------------------------- *)
Digit == {"0", "1", "2", "3", "4", "5", "6", "7", "8", "9"}
White == {" ", "\n"}

DigitVal(c) ==
    CASE c = "0" -> 0 [] c = "1" -> 1 [] c = "2" -> 2 [] c = "3" -> 3
      [] c = "4" -> 4 [] c = "5" -> 5 [] c = "6" -> 6 [] c = "7" -> 7
      [] c = "8" -> 8 [] c = "9" -> 9

DigitChar(d) ==
    CASE d = 0 -> "0" [] d = 1 -> "1" [] d = 2 -> "2" [] d = 3 -> "3"
      [] d = 4 -> "4" [] d = 5 -> "5" [] d = 6 -> "6" [] d = 7 -> "7"
      [] d = 8 -> "8" [] d = 9 -> "9"

\* str(n) for n >= 0: the decimal digits, most significant first
RECURSIVE NatStr(_)
NatStr(n) == IF n < 10 THEN <<DigitChar(n)>>
             ELSE Append(NatStr(n \div 10), DigitChar(n % 10))

\* str(pid) as create_pid_file writes it
str(n) == IF n < 0 THEN <<"-">> \o NatStr(0 - n) ELSE NatStr(n)

\* pid.strip(): drop leading and trailing whitespace
RECURSIVE lstrip(_)
lstrip(s) == IF s # <<>> /\ Head(s) \in White THEN lstrip(Tail(s)) ELSE s

RECURSIVE rstrip(_)
rstrip(s) == IF s # <<>> /\ s[Len(s)] \in White
             THEN rstrip(SubSeq(s, 1, Len(s) - 1)) ELSE s

\* a strip that drops leading whitespace only
strip_LeadingOnly(s) == lstrip(s)

strip(s) == rstrip(lstrip(s))

\* the digits of a decimal literal after its optional sign
Unsigned(s) == IF s # <<>> /\ Head(s) \in {"+", "-"} THEN Tail(s) ELSE s

\* whether int(s) succeeds: an optional sign, then one or more digits
IsIntLiteral(s) ==
    /\ Unsigned(s) # <<>>
    /\ \A i \in 1 .. Len(Unsigned(s)) : Unsigned(s)[i] \in Digit

RECURSIVE DigitsVal(_)
DigitsVal(s) == IF s = <<>> THEN 0
                ELSE 10 * DigitsVal(SubSeq(s, 1, Len(s) - 1)) + DigitVal(s[Len(s)])

\* int(s) where it succeeds
int(s) == IF s # <<>> /\ Head(s) = "-" THEN 0 - DigitsVal(Unsigned(s))
          ELSE DigitsVal(Unsigned(s))

\* the PID file: whether the path exists, the inode behind it, its bytes
Absent == [exists |-> FALSE, ino |-> 0, content |-> <<>>]
External(c) == [exists |-> TRUE, ino |-> 0, content |-> c]

\* get_pid(pid_file): -1 when the file is missing or int() raises ValueError
get_pid(f) ==
    IF ~f.exists THEN 0 - 1
    ELSE IF IsIntLiteral(strip(f.content)) THEN int(strip(f.content))
    ELSE 0 - 1

(* ------------------------------ state --------------------------------- *)
VARIABLES
    file,      \* the PID file at pid_file
    pc,        \* per process: where it is in pydaemon.py ("free": no such process)
    role,      \* per process: "start"/"stop" command, first "child", "daemon"
    parent,    \* per process: the pid that forked it (0: the invoking shell)
    sid,       \* per process: its session (0: the invoking shell's session)
    pgid,      \* per process: its process group
    ret,       \* per process: <<code>> once start/stop has returned code
    pid,       \* per process: its local variable pid (stop: get_pid(); fork: os.fork())
    seen,      \* per stop: the PID file as its get_pid read it
    atCall,    \* per stop: what a probe of that pid would have found at that moment
    fd,        \* per process: the inode its open PID-file handle is on (-1: none)
    kills,     \* per stop: os.kill(pid, SIGKILL) calls made
    sleeps,    \* per stop: time.sleep(2) calls made
    probes,    \* per stop: os.kill(pid, 0) calls made
    sigkill,   \* per process: a SIGKILL is pending for it
    runs,      \* per process: times it has invoked app
    deadAt,    \* per stop: kills made when its target was reaped (-1: not yet)
    redirected, \* per process: stdout/stderr point at /dev/null
    cwd,       \* per process: its working directory
    umask      \* per process: its file-mode creation mask

vars == <<file, pc, role, parent, sid, pgid, ret, pid, seen, atCall, fd, kills, sleeps, probes,
          sigkill, runs, deadAt, redirected, cwd, umask>>

Alive(p) == p \in Pids /\ pc[p] \notin Terminal \cup {"free"}

\* what the PID file may hold when the program first sees it
InitFiles ==
    {Absent} \cup
    { External(c) : c \in { <<>>, <<"x">>, <<"0">>, <<"-", "1">>,
                            str(0 - (FirstPid + 1)),
                            <<" ">> \o str(GhostPid) \o <<"\n">>,
                            str(InitPid) } }

Init ==
    /\ file \in InitFiles
    /\ pc = [p \in Pids |-> "free"]
    /\ role = [p \in Pids |-> "none"]
    /\ parent = [p \in Pids |-> 0]
    /\ sid = [p \in Pids |-> 0]
    /\ pgid = [p \in Pids |-> 0]
    /\ ret = [p \in Pids |-> <<>>]
    /\ pid = [p \in Pids |-> 0]
    /\ fd = [p \in Pids |-> 0 - 1]
    /\ seen = [p \in Pids |-> Absent]
    /\ atCall = [p \in Pids |-> ""]
    /\ kills = [p \in Pids |-> 0]
    /\ sleeps = [p \in Pids |-> 0]
    /\ probes = [p \in Pids |-> 0]
    /\ sigkill = [p \in Pids |-> FALSE]
    /\ runs = [p \in Pids |-> 0]
    /\ deadAt = [p \in Pids |-> 0 - 1]
    /\ redirected = [p \in Pids |-> FALSE]
    /\ cwd = [p \in Pids |-> "."]
    /\ umask = [p \in Pids |-> 18]

\* the pid the OS gives the next process: the lowest one never used
FreePids == {p \in Pids : pc[p] = "free"}
NewPid == CHOOSE p \in FreePids : \A q \in FreePids : p <= q

Calls == Cardinality({p \in Pids : role[p] \in {"start", "stop"}})

\* a process can run its own code: it exists and no SIGKILL is pending
CanRun(p) == Alive(p) /\ ~sigkill[p]

(* ------------------------------ main ---------------------------------- *)
\* main(pid_file, action=a): a shell runs the command as a new process, in a
\* process group of its own
main(a) ==
    /\ FreePids # {}
    /\ LET p == NewPid IN
         /\ pc' = [pc EXCEPT ![p] = IF a = "start" THEN "start" ELSE "get_pid"]
         /\ role' = [role EXCEPT ![p] = a]
         /\ pgid' = [pgid EXCEPT ![p] = p]
    /\ UNCHANGED <<file, parent, sid, ret, pid, seen, atCall, fd, kills, sleeps, probes, sigkill,
                   runs, deadAt, redirected, cwd, umask>>

(* ------------------------------ start --------------------------------- *)
\* a start that takes the PID file for a record only when a PID can be read from it
InstanceRecorded_Parsed(f) == f.exists /\ get_pid(f) > 0

\* a stale record: a PID file whose process is no longer alive
Stale(f) == f.exists /\ get_pid(f) > 0 /\ get_pid(f) # InitPid /\ ~Alive(get_pid(f))

\* a start that probes the recorded PID, as stop does, and goes on if it is stale
InstanceRecorded_Probed(f) == f.exists /\ ~Stale(f)

\* start, lines 20-27: open(pid_file, "r") succeeds exactly when the path exists
InstanceRecorded(f) == f.exists

\* start, lines 20-29: read the PID file; return 0 if it is there, else go on to fork
start_open(p) ==
    /\ role[p] = "start" /\ pc[p] = "start" /\ CanRun(p)
    /\ IF InstanceRecorded(file)
       THEN /\ pc' = [pc EXCEPT ![p] = "returned"]
            /\ ret' = [ret EXCEPT ![p] = <<0>>]
       ELSE /\ pc' = [pc EXCEPT ![p] = "fork1"]
            /\ ret' = ret
    /\ UNCHANGED <<seen, atCall, file, role, parent, sid, pgid, pid, fd, kills, sleeps, probes,
                   sigkill, runs, deadAt, redirected, cwd, umask>>

\* os.fork(): a new process k, a copy of p, that resumes at `at`
Forked(p, k, r, at, next) ==
    /\ pc' = [pc EXCEPT ![p] = next, ![k] = at]
    /\ role' = [role EXCEPT ![k] = r]
    /\ parent' = [parent EXCEPT ![k] = p]
    /\ sid' = [sid EXCEPT ![k] = sid[p]]
    /\ pgid' = [pgid EXCEPT ![k] = pgid[p]]
    /\ redirected' = [redirected EXCEPT ![k] = redirected[p]]
    /\ cwd' = [cwd EXCEPT ![k] = cwd[p]]
    /\ umask' = [umask EXCEPT ![k] = umask[p]]
    /\ pid' = [pid EXCEPT ![p] = k, ![k] = 0]

\* a first fork whose parent does not exit but returns from fork as the child does
fork_first_NoExit(p) ==
    /\ pc[p] = "fork1" /\ CanRun(p)
    /\ FreePids # {}
    /\ Forked(p, NewPid, "child", "setsid", "redirect")
    /\ UNCHANGED <<seen, atCall, file, ret, fd, kills, sleeps, probes, sigkill, runs, deadAt>>

\* fork, lines 78-80: first fork; the parent (pid > 0) leaves through
\* sys.exit(), which touches nothing but the parent itself
fork_first(p) ==
    /\ pc[p] = "fork1" /\ CanRun(p)
    /\ FreePids # {}
    /\ Forked(p, NewPid, "child", "setsid", "exited")
    /\ UNCHANGED <<seen, atCall, file, ret, fd, kills, sleeps, probes, sigkill, runs, deadAt>>

\* a first child that changes directory and mask but opens no session
fork_setsid_NoSession(p) ==
    /\ pc[p] = "setsid" /\ CanRun(p)
    /\ pc' = [pc EXCEPT ![p] = "fork2"]
    /\ cwd' = [cwd EXCEPT ![p] = "/"]
    /\ umask' = [umask EXCEPT ![p] = 0]
    /\ UNCHANGED <<file, role, parent, sid, pgid, ret, pid, seen, atCall, fd, kills, sleeps,
                   probes, sigkill, runs, deadAt, redirected>>

\* fork, lines 82-84: chdir("/"), setsid(), umask(0) in the first child
fork_setsid(p) ==
    /\ pc[p] = "setsid" /\ CanRun(p)
    /\ pc' = [pc EXCEPT ![p] = "fork2"]
    /\ cwd' = [cwd EXCEPT ![p] = "/"]
    /\ sid' = [sid EXCEPT ![p] = p]
    /\ pgid' = [pgid EXCEPT ![p] = p]
    /\ umask' = [umask EXCEPT ![p] = 0]
    /\ UNCHANGED <<file, role, parent, ret, pid, seen, atCall, fd, kills, sleeps, probes,
                   sigkill, runs, deadAt, redirected>>

\* fork, lines 86-87: second fork; the first child (pid > 0) goes on to
\* create_pid_file, the grandchild to the redirection
fork_second(p) ==
    /\ pc[p] = "fork2" /\ CanRun(p)
    /\ FreePids # {}
    /\ Forked(p, NewPid, "daemon", "redirect", "create_open")
    /\ UNCHANGED <<seen, atCall, file, ret, fd, kills, sleeps, probes, sigkill, runs, deadAt>>

\* open(pid_file, "w"): truncate the file the path names, or create a new one
OpenW(f, p) == IF f.exists THEN [f EXCEPT !.content = <<>>]
               ELSE [exists |-> TRUE, ino |-> p, content |-> <<>>]

\* write at offset 0 of a handle: the bytes overlay what the file holds
Overlay(old, new) == IF Len(old) > Len(new)
                     THEN new \o SubSeq(old, Len(new) + 1, Len(old)) ELSE new

\* create_pid_file, line 111: open(pid_file, "w")
create_open(p) ==
    /\ pc[p] = "create_open" /\ CanRun(p)
    /\ file' = OpenW(file, p)
    /\ fd' = [fd EXCEPT ![p] = OpenW(file, p).ino]
    /\ pc' = [pc EXCEPT ![p] = "create_write"]
    /\ UNCHANGED <<seen, atCall, role, parent, sid, pgid, ret, pid, kills, sleeps, probes,
                   sigkill, runs, deadAt, redirected, cwd, umask>>

\* what create_pid_file writes: the pid it was given (fork's return value)
PidWritten(p) == str(pid[p])

\* create_pid_file, lines 112-113: f.write(str(pid)), flushed as the with-block
\* closes f; the bytes reach the path only if it still names the opened inode.
\* fork, line 93: the first child then leaves through sys.exit()
create_write(p) ==
    /\ pc[p] = "create_write" /\ CanRun(p)
    /\ file' = IF file.exists /\ file.ino = fd[p]
               THEN [file EXCEPT !.content = Overlay(file.content, PidWritten(p))]
               ELSE file
    /\ fd' = [fd EXCEPT ![p] = 0 - 1]
    /\ pc' = [pc EXCEPT ![p] = "exited"]
    /\ UNCHANGED <<seen, atCall, role, parent, sid, pgid, ret, pid, kills, sleeps, probes,
                   sigkill, runs, deadAt, redirected, cwd, umask>>

\* fork, lines 97-102, then start, lines 32-33: the grandchild redirects
\* stdout/stderr, returns from fork into start, and start calls app
app_call(p) ==
    /\ pc[p] = "redirect" /\ CanRun(p)
    /\ redirected' = [redirected EXCEPT ![p] = TRUE]
    /\ runs' = [runs EXCEPT ![p] = @ + 1]
    /\ pc' = [pc EXCEPT ![p] = "running"]
    /\ UNCHANGED <<file, role, parent, sid, pgid, ret, pid, seen, atCall, fd, kills, sleeps,
                   probes, sigkill, deadAt, cwd, umask>>

\* os.remove(pid_file) then return code: FileNotFoundError, caught nowhere,
\* ends the process instead
RemoveAndReturn(p, code) ==
    IF file.exists
    THEN /\ file' = Absent
         /\ pc' = [pc EXCEPT ![p] = "returned"]
         /\ ret' = [ret EXCEPT ![p] = <<code>>]
    ELSE /\ file' = file
         /\ pc' = [pc EXCEPT ![p] = "crashed"]
         /\ ret' = ret

\* start, lines 35-38: os.remove(pid_file); return 0
start_remove(p) ==
    /\ RemoveAndReturn(p, 0)
    /\ UNCHANGED <<seen, atCall, role, parent, sid, pgid, pid, fd, kills, sleeps, probes,
                   sigkill, runs, deadAt, redirected, cwd, umask>>

\* start, lines 33-38: app returns normally (after any duration) and start
\* goes straight on to the removal, with no system call in between
app_return(p) ==
    /\ pc[p] = "running" /\ CanRun(p)
    /\ start_remove(p)

(* ------------------------------ signals ------------------------------- *)
\* the processes os.kill(n, sig) called by s signals: n > 0 one process, n = 0
\* the caller's process group, n = -1 every process, n < -1 process group -n
Targets(s, n) ==
    IF n > 0 THEN {q \in Pids : q = n /\ Alive(q)}
    ELSE IF n = 0 THEN {q \in Pids : Alive(q) /\ pgid[q] = pgid[s]}
    ELSE IF n = 0 - 1 THEN {q \in Pids : Alive(q)}
    ELSE {q \in Pids : Alive(q) /\ pgid[q] = 0 - n}

\* os.kill(n, sig): delivered, ProcessLookupError (ESRCH) or PermissionError (EPERM)
KillResult(s, n) ==
    IF n = InitPid THEN "EPERM"
    ELSE IF Targets(s, n) = {} THEN "ESRCH"
    ELSE "OK"

(* ------------------------------- stop --------------------------------- *)
\* a stop that tests the result of get_pid for falsity ("if not pid")
NoPid_Falsy(v) == v = 0

\* stop, lines 48-49: whether get_pid's result makes stop give up
NoPid(v) == v = 0 - 1

\* stop, lines 47-49: pid = get_pid(pid_file); return 1 if it is -1
stop_get_pid(p) ==
    /\ role[p] = "stop" /\ pc[p] = "get_pid" /\ CanRun(p)
    /\ pid' = [pid EXCEPT ![p] = get_pid(file)]
    /\ seen' = [seen EXCEPT ![p] = file]
    /\ atCall' = [atCall EXCEPT ![p] = KillResult(p, get_pid(file))]
    /\ IF NoPid(get_pid(file))
       THEN /\ pc' = [pc EXCEPT ![p] = "returned"]
            /\ ret' = [ret EXCEPT ![p] = <<1>>]
       ELSE /\ pc' = [pc EXCEPT ![p] = "probe"]
            /\ ret' = ret
    /\ UNCHANGED <<file, role, parent, sid, pgid, fd, kills, sleeps, probes,
                   sigkill, runs, deadAt, redirected, cwd, umask>>

\* a stop that catches every OSError at the probe, PermissionError included
AfterProbe_PermAsStale(r) == IF r = "OK" THEN "kill" ELSE "remove_stale"

\* a stop that does not tell a missing process from a live one at the probe
AfterProbe_NoStaleCheck(r) == IF r = "EPERM" THEN "crashed" ELSE "kill"

\* stop, lines 51-53: where stop goes after os.kill(pid, 0) with result r
AfterProbe(r) ==
    CASE r = "OK" -> "kill"
      [] r = "ESRCH" -> "remove_stale"
      [] r = "EPERM" -> "crashed"

\* stop, lines 51-53: os.kill(pid, 0)
stop_probe(p) ==
    /\ pc[p] = "probe" /\ CanRun(p)
    /\ probes' = [probes EXCEPT ![p] = @ + 1]
    /\ pc' = [pc EXCEPT ![p] = AfterProbe(KillResult(p, pid[p]))]
    /\ UNCHANGED <<file, role, parent, sid, pgid, ret, pid, seen, atCall, fd, kills, sleeps,
                   sigkill, runs, deadAt, redirected, cwd, umask>>

\* stop, lines 54-56: the probe found no process: os.remove(pid_file); return 0
stop_remove_stale(p) ==
    /\ pc[p] = "remove_stale" /\ CanRun(p)
    /\ RemoveAndReturn(p, 0)
    /\ UNCHANGED <<seen, atCall, role, parent, sid, pgid, pid, fd, kills, sleeps, probes,
                   sigkill, runs, deadAt, redirected, cwd, umask>>

\* a stop whose loop has no except clause for ProcessLookupError
AfterKill_Uncaught(r) == IF r = "OK" THEN "sleep" ELSE "crashed"

\* stop, lines 58-60 and 65: where stop goes after os.kill(pid, SIGKILL) with result r
AfterKill(r) ==
    CASE r = "OK" -> "sleep"
      [] r = "ESRCH" -> "remove_term"
      [] r = "EPERM" -> "crashed"

\* stop, line 60: os.kill(pid, signal.SIGKILL)
stop_kill(p) ==
    /\ pc[p] = "kill" /\ CanRun(p)
    /\ kills' = [kills EXCEPT ![p] = @ + 1]
    /\ pc' = [pc EXCEPT ![p] = AfterKill(KillResult(p, pid[p]))]
    /\ sigkill' = IF KillResult(p, pid[p]) = "OK"
                  THEN [q \in Pids |-> sigkill[q] \/ q \in Targets(p, pid[p])]
                  ELSE sigkill
    /\ UNCHANGED <<seen, atCall, file, role, parent, sid, pgid, ret, pid, fd, sleeps, probes,
                   runs, deadAt, redirected, cwd, umask>>

\* a stop that retries for ever (the "while True" its comment mentions)
BudgetUsed_Never(n) == n < 0

\* a stop whose loop gives up one attempt early
BudgetUsed_OneShort(n) == n >= Attempts - 1

\* stop, lines 59 and 62: the for loop is over after range(10) is used up
BudgetUsed(n) == n >= Attempts

\* stop, lines 61-64: time.sleep(2); after the last iteration the loop's else
\* branch returns 1
stop_sleep(p) ==
    /\ pc[p] = "sleep" /\ CanRun(p)
    /\ sleeps' = [sleeps EXCEPT ![p] = @ + 1]
    /\ IF BudgetUsed(kills[p])
       THEN /\ pc' = [pc EXCEPT ![p] = "returned"]
            /\ ret' = [ret EXCEPT ![p] = <<1>>]
       ELSE /\ pc' = [pc EXCEPT ![p] = "kill"]
            /\ ret' = ret
    /\ UNCHANGED <<seen, atCall, file, role, parent, sid, pgid, pid, fd, kills, probes,
                   sigkill, runs, deadAt, redirected, cwd, umask>>

\* stop, lines 65-69: ProcessLookupError in the loop: os.remove(pid_file); return 0
stop_remove_term(p) ==
    /\ pc[p] = "remove_term" /\ CanRun(p)
    /\ RemoveAndReturn(p, 0)
    /\ UNCHANGED <<seen, atCall, role, parent, sid, pgid, pid, fd, kills, sleeps, probes,
                   sigkill, runs, deadAt, redirected, cwd, umask>>

(* --------------------------- the environment -------------------------- *)
\* a process with a pending SIGKILL dies (at once, or late when it sits in
\* an uninterruptible wait; it never runs its own code again); each stop in
\* its retry loop on that pid has made deadAt terminate calls by then
Die(p) ==
    /\ Alive(p) /\ sigkill[p]
    /\ pc' = [pc EXCEPT ![p] = "killed"]
    /\ deadAt' = [s \in Pids |->
                    IF pid[s] = p /\ Alive(s) /\ pc[s] \in {"kill", "sleep"}
                       /\ deadAt[s] < 0
                    THEN kills[s] ELSE deadAt[s]]
    /\ UNCHANGED <<file, role, parent, sid, pgid, ret, pid, seen, atCall, fd, kills, sleeps,
                   probes, sigkill, runs, redirected, cwd, umask>>

\* a handler that removes the PID file before it exits
sigterm_handler_Cleanup(p) ==
    /\ role[p] = "daemon" /\ CanRun(p)
    /\ pc' = [pc EXCEPT ![p] = "exited"]
    /\ file' = Absent
    /\ UNCHANGED <<role, parent, sid, pgid, ret, pid, seen, atCall, fd, kills, sleeps,
                   probes, sigkill, runs, deadAt, redirected, cwd, umask>>

\* sigterm_handler, lines 139-141 (registered by main, line 171, inherited
\* over fork): SIGTERM reaches the daemon, which exits through sys.exit()
sigterm_handler(p) ==
    /\ role[p] = "daemon" /\ CanRun(p)
    /\ pc' = [pc EXCEPT ![p] = "exited"]
    /\ UNCHANGED <<file, role, parent, sid, pgid, ret, pid, seen, atCall, fd, kills, sleeps,
                   probes, sigkill, runs, deadAt, redirected, cwd, umask>>

\* the exit status the process's parent sees: sys.exit() gives 0, main's
\* sys.exit(code) the code start/stop returned, log_except_hook's sys.exit(1)
\* gives 1, and a process killed by SIGKILL (signal 9) has none of its own
ExitStatus(p) ==
    CASE pc[p] = "exited" -> 0
      [] pc[p] = "returned" -> ret[p][1]
      [] pc[p] = "crashed" -> 1
      [] pc[p] = "killed" -> 0 - 9

(* --------------------------- specifications --------------------------- *)
\* every step of a process of the program, and of the OS
Step ==
    \E p \in Pids :
        \/ start_open(p) \/ fork_first(p) \/ fork_setsid(p) \/ fork_second(p)
        \/ create_open(p) \/ create_write(p)
        \/ app_call(p) \/ app_return(p)
        \/ stop_get_pid(p) \/ stop_probe(p) \/ stop_remove_stale(p)
        \/ stop_kill(p) \/ stop_sleep(p) \/ stop_remove_term(p)
        \/ Die(p) \/ sigterm_handler(p)

\* commands are invoked at any time, also while others are under way
Invoke == Calls < MaxCalls /\ \E a \in {"start", "stop"} : main(a)

Next == Invoke \/ Step

Spec == Init /\ [][Next]_vars

\* no start or stop command is under way: each caller, and each first child
\* that start left behind to write the PID file, has ended
Quiescent == \A p \in Pids : role[p] \in {"start", "stop", "child"} => ~Alive(p)

\* commands are invoked one after the other (the daemon runs alongside)
InvokeSeq == Quiescent /\ Calls < MaxCallsSeq /\ \E a \in {"start", "stop"} : main(a)

NextSeq == InvokeSeq \/ Step

SpecSeq == Init /\ [][NextSeq]_vars

\* the steps of stop in process p
StopStep(p) ==
    \/ stop_get_pid(p) \/ stop_probe(p) \/ stop_remove_stale(p)
    \/ stop_kill(p) \/ stop_sleep(p) \/ stop_remove_term(p)

\* scheduling: a stop that can take a step is not held up for ever (its
\* system calls return, its sleep ends), and a pending SIGKILL is delivered
\* in the end
SpecSeqFair ==
    /\ SpecSeq
    /\ \A p \in Pids : WF_vars(StopStep(p)) /\ WF_vars(Die(p))

(* ------------------- write and read back, in isolation ---------------- *)
\* the first child of some start is about to call create_pid_file(pid_file, n)
\* with n the pid its fork returned, and a stop is about to call get_pid; the
\* path is free, or names an older file with longer content
InitRT ==
    /\ file \in {Absent, External(<<"7", "7", "7", " ", "\n">>)}
    /\ pc = [p \in Pids |-> IF p = FirstPid THEN "create_open"
                            ELSE IF p = FirstPid + 1 THEN "get_pid" ELSE "free"]
    /\ role = [p \in Pids |-> IF p = FirstPid THEN "child"
                              ELSE IF p = FirstPid + 1 THEN "stop" ELSE "none"]
    /\ \E n \in 1 .. MaxPid : pid = [p \in Pids |-> IF p = FirstPid THEN n ELSE 0]
    /\ parent = [p \in Pids |-> 0]
    /\ sid = [p \in Pids |-> IF p = FirstPid THEN p ELSE 0]
    /\ pgid = [p \in Pids |-> IF p \in {FirstPid, FirstPid + 1} THEN p ELSE 0]
    /\ ret = [p \in Pids |-> <<>>]
    /\ fd = [p \in Pids |-> 0 - 1]
    /\ seen = [p \in Pids |-> Absent]
    /\ atCall = [p \in Pids |-> ""]
    /\ kills = [p \in Pids |-> 0]
    /\ sleeps = [p \in Pids |-> 0]
    /\ probes = [p \in Pids |-> 0]
    /\ sigkill = [p \in Pids |-> FALSE]
    /\ runs = [p \in Pids |-> 0]
    /\ deadAt = [p \in Pids |-> 0 - 1]
    /\ redirected = [p \in Pids |-> FALSE]
    /\ cwd = [p \in Pids |-> "."]
    /\ umask = [p \in Pids |-> 18]

\* whitespace the storage layer may put around the text of a closed file
Pads == {<<>>, <<" ">>, <<"\n">>, <<" ", "\n">>}

\* get_pid, lines 122-130: the text read is the text written with whitespace
\* around it (a trailing newline, as an editor or echo leaves)
storage_pad ==
    /\ file.exists /\ file.content # <<>>
    /\ \A p \in Pids : fd[p] = 0 - 1
    /\ Head(file.content) \notin White
    /\ file.content[Len(file.content)] \notin White
    /\ \E l \in Pads, r \in Pads :
         /\ l \o r # <<>>
         /\ file' = [file EXCEPT !.content = l \o @ \o r]
    /\ UNCHANGED <<pc, role, parent, sid, pgid, ret, pid, seen, atCall, fd, kills, sleeps,
                   probes, sigkill, runs, deadAt, redirected, cwd, umask>>

NextRT ==
    \/ \E p \in Pids : create_open(p) \/ create_write(p) \/ stop_get_pid(p)
    \/ storage_pad

SpecRT == InitRT /\ [][NextRT]_vars

(* ------------------------------ claims -------------------------------- *)
\* the daemon processes: grandchildren, from the return of the second fork on
Daemons == {p \in Pids : role[p] = "daemon" /\ Alive(p)}

\* C1: for the one PID-file path at most one daemon process exists at any
\* time, however the start commands of separate callers interleave
C1_AtMostOneDaemon == Cardinality(Daemons) <= 1

\* process p takes its own step from program point at
Steps(p, at) == pc[p] = at /\ CanRun(p) /\ pc'[p] # at

\* C2: a start that finds the PID file (whatever it holds, whether or not the
\* process it names is alive) returns 0 and does not fork, run the payload,
\* signal anything or touch the PID file
C2_StartFindsFile ==
    [][\A p \in Pids :
         (role[p] = "start" /\ Steps(p, "start") /\ file.exists) =>
           /\ pc'[p] = "returned" /\ ret'[p] = <<0>>
           /\ FreePids' = FreePids
           /\ runs' = runs
           /\ sigkill' = sigkill /\ kills' = kills /\ probes' = probes
           /\ file' = file]_vars

\* C2 happens: a second start has returned 0 while the first start's daemon
\* is alive and named by the PID file
C2_SecondStartReturned ==
    \E p \in Pids, g \in Pids :
        /\ role[p] = "start" /\ pc[p] = "returned" /\ ret[p] = <<0>>
        /\ role[g] = "daemon" /\ Alive(g) /\ runs[g] = 1
        /\ file.exists /\ file.content = str(g)

\* C3: whenever the PID file exists because a start found none and made it,
\* it holds the process id of the grandchild that runs the payload (so not
\* the caller's, not the first child's, not 0)
C3_FileNamesDaemon ==
    (file.exists /\ file.ino # 0) =>
        \E g \in Pids : role[g] = "daemon" /\ file.content = str(g)

\* stop s ends (returns or dies of an exception) in this step of its own
Ends(s) == role[s] = "stop" /\ CanRun(s) /\ pc'[s] \in Terminal

\* the process stop s probed alive has since died of SIGKILL, and s had made
\* n terminate calls by then
KilledAfter(s, n) == pid[s] \in Pids /\ pc[pid[s]] = "killed" /\ deadAt[s] = n

\* C4: a stop whose PID file names a live process that dies of the SIGKILL
\* while terminate calls of the budget are still to come returns 0, and the
\* PID file is absent as it returns
C4_StopResponsive ==
    [][\A s \in Pids :
         (Ends(s) /\ \E n \in 0 .. Attempts - 1 : KilledAfter(s, n)) =>
           pc'[s] = "returned" /\ ret'[s] = <<0>> /\ ~file'.exists]_vars

\* C4 happens: a stop has returned 0 after its SIGKILL killed the daemon the
\* PID file named
C4_StopKilledDaemon ==
    \E s \in Pids :
        /\ role[s] = "stop" /\ pc[s] = "returned" /\ ret[s] = <<0>>
        /\ \E n \in 1 .. Attempts - 1 : KilledAfter(s, n)
        /\ role[pid[s]] = "daemon" /\ seen[s].content = str(pid[s])
        /\ ~file.exists

\* C5: a stop called with a PID file whose PID names no existing process
\* finds so with its probe (signal 0 reports no such process), sends no
\* SIGKILL, removes the PID file and returns 0
C5_StopStale ==
    [][\A s \in Pids :
         (role[s] = "stop" /\ atCall[s] = "ESRCH") =>
           /\ Steps(s, "probe") =>
                pc'[s] = "remove_stale" /\ sigkill' = sigkill /\ kills' = kills
           /\ (Alive(s) /\ pc'[s] \in Terminal) =>
                /\ pc[s] = "remove_stale"
                /\ pc'[s] = "returned" /\ ret'[s] = <<0>>
                /\ file.exists /\ ~file'.exists
                /\ kills'[s] = 0 /\ sigkill' = sigkill]_vars

\* C5 happens: a stop has found that the PID file's process does not exist,
\* has removed the file and returned 0 without a terminate call
C5_StaleRemoved ==
    \E s \in Pids :
        /\ role[s] = "stop" /\ pc[s] = "returned" /\ ret[s] = <<0>>
        /\ pid[s] > 0 /\ atCall[s] = "ESRCH"
        /\ probes[s] = 1 /\ kills[s] = 0
        /\ seen[s].exists /\ ~file.exists

\* C6: a stop that finds no PID file returns 1, signals no process and
\* creates, changes or removes no file
C6_StopNoFile ==
    [][\A s \in Pids :
         (role[s] = "stop" /\ Steps(s, "get_pid") /\ ~file.exists) =>
           /\ pc'[s] = "returned" /\ ret'[s] = <<1>>
           /\ sigkill' = sigkill /\ probes' = probes /\ kills' = kills
           /\ file' = file]_vars

\* C6 happens: a stop has returned 1 after get_pid found no file
C6_NoFileReturned ==
    \E s \in Pids :
        /\ role[s] = "stop" /\ pc[s] = "returned" /\ ret[s] = <<1>>
        /\ ~seen[s].exists /\ pid[s] = 0 - 1 /\ probes[s] = 0

\* the time stop s has slept
Slept(s) == sleeps[s] * SleepInterval

\* C7: when the target outlives every terminate call, stop makes exactly 10
\* SIGKILL calls, each followed by one sleep of the fixed interval, then
\* returns 1, and the PID file is still there with the content stop read
C7_StopBudget ==
    [][\A s \in Pids :
         role[s] = "stop" =>
           /\ (Steps(s, "sleep") /\ kills[s] = Attempts) =>
                /\ pc'[s] = "returned" /\ ret'[s] = <<1>>
                /\ sleeps'[s] = Attempts
                /\ Slept(s)' = Attempts * SleepInterval
                /\ file' = file /\ file.exists /\ file = seen[s]
           /\ (CanRun(s) /\ pc[s] # "get_pid" /\ pc'[s] = "returned"
                 /\ ret'[s] = <<1>>) =>
                pc[s] = "sleep" /\ kills[s] = Attempts
           /\ sleeps'[s] <= kills'[s] /\ kills'[s] <= sleeps'[s] + 1
           /\ (pc'[s] = "kill" => sleeps'[s] = kills'[s])]_vars

\* C7 happens: a stop has returned 1 after 10 SIGKILLs and 10 sleeps, its
\* target still alive and the PID file as it was
C7_BudgetSpent ==
    \E s \in Pids :
        /\ role[s] = "stop" /\ pc[s] = "returned" /\ ret[s] = <<1>>
        /\ kills[s] = Attempts /\ sleeps[s] = Attempts
        /\ Alive(pid[s]) /\ file.exists /\ file = seen[s]

\* a positive decimal integer: digits only, not all of them 0
PositiveDecimal(t) ==
    /\ t # <<>>
    /\ \A i \in 1 .. Len(t) : t[i] \in Digit
    /\ DigitsVal(t) > 0

\* C8: whenever the whitespace-trimmed content of the PID file is not a
\* positive decimal integer (text, empty, 0, negative), get_pid yields the
\* invalid outcome and stop returns 1 without a probe or signal to any
\* process or process group (and so without removing the file)
C8_InvalidPidFile ==
    \A s \in Pids :
        (role[s] = "stop" /\ pc[s] # "get_pid" /\ seen[s].exists
           /\ ~PositiveDecimal(strip(seen[s].content))) =>
          /\ pid[s] = 0 - 1
          /\ pc[s] = "returned" /\ ret[s] = <<1>>
          /\ probes[s] = 0 /\ kills[s] = 0

\* C9: whenever the payload returns normally in the daemon, the daemon
\* removes the PID file and start returns 0; once its first child has ended
\* too, the PID file that start made is gone
C9_CleanRun ==
    \A g \in Pids :
        (role[g] = "daemon" /\ pc[g] \in {"returned", "crashed"}) =>
          /\ pc[g] = "returned" /\ ret[g] = <<0>>
          /\ ~Alive(parent[g]) => ~(file.exists /\ file.ino = parent[g])

\* C10: a stale PID file makes every start return 0 without launching a
\* daemon; it stays as it is until a stop removes it; and a start that finds
\* no PID file (as after that stop) goes on to launch a daemon
C10_StaleBlocksStart ==
    [][/\ \A p \in Pids :
            (role[p] = "start" /\ Steps(p, "start") /\ Stale(file)) =>
              /\ pc'[p] = "returned" /\ ret'[p] = <<0>>
              /\ FreePids' = FreePids /\ Daemons' = Daemons
              /\ file' = file
       /\ (Stale(file) /\ file' # file) =>
            /\ ~file'.exists
            /\ \E s \in Pids :
                 /\ role[s] = "stop" /\ CanRun(s)
                 /\ pc[s] \in {"remove_stale", "remove_term"}
                 /\ pc'[s] = "returned"
       /\ \A p \in Pids :
            (role[p] = "start" /\ Steps(p, "start") /\ ~file.exists) =>
              pc'[p] = "fork1" /\ ret'[p] = <<>>]_vars

\* C10 happens: a start returned 0 on a stale PID file, a later stop removed
\* the file, and a start after that has a daemon running the payload
C10_RestartedAfterStop ==
    \E p \in Pids, s \in Pids, g \in Pids :
        /\ role[p] = "start" /\ pc[p] = "returned" /\ ret[p] = <<0>>
        /\ role[s] = "stop" /\ pc[s] = "returned" /\ ret[s] = <<0>>
        /\ atCall[s] = "ESRCH" /\ p < s /\ s < g
        /\ role[g] = "daemon" /\ runs[g] = 1 /\ Alive(g)

\* C11: after a start that found no PID file, only the grandchild returns
\* from fork: the caller and the first child each leave their code by exiting
\* with status 0 and never invoke the payload; the grandchild invokes it, once
C11_OnlyGrandchildRuns ==
    [][\A p \in Pids :
         /\ (role[p] = "start" /\ Steps(p, "fork1")) =>
              pc'[p] = "exited" /\ ExitStatus(p)' = 0
         /\ (role[p] = "child" /\ CanRun(p) /\ ~Alive(p)') =>
              pc'[p] = "exited" /\ ExitStatus(p)' = 0
         /\ role'[p] \in {"start", "child"} =>
              runs'[p] = 0 /\ pc'[p] \notin {"redirect", "running"}
         /\ runs'[p] <= 1
         /\ (role[p] = "daemon" /\ Steps(p, "redirect") /\ pc'[p] # "exited") =>
              pc'[p] = "running" /\ runs'[p] = 1
         /\ pc'[p] = "running" =>
              role'[p] = "daemon" /\ runs'[p] = 1]_vars

\* C11 happens: the grandchild has invoked the payload, and the caller and
\* the first child of that start have both exited
C11_DaemonRanPayload ==
    \E g \in Pids :
        /\ role[g] = "daemon" /\ runs[g] = 1
        /\ role[parent[g]] = "child" /\ pc[parent[g]] = "exited"
        /\ role[parent[parent[g]]] = "start"
        /\ pc[parent[parent[g]]] = "exited"

\* C12: get_pid on the file that create_pid_file(pid_file, n) wrote, n any
\* positive process id, yields n, also when spaces or a newline surround the
\* decimal text in the file
C12_RoundTrip ==
    [][\A s \in Pids, c \in Pids :
         (role[s] = "stop" /\ Steps(s, "get_pid")
            /\ role[c] = "child" /\ pc[c] = "exited") =>
           pid'[s] = pid[c] /\ pid'[s] > 0 /\ pc'[s] = "probe"]_vars

\* C12 happens: get_pid has read back a three-digit pid from a file in which
\* whitespace surrounds the text create_pid_file wrote
C12_ReadBackPadded ==
    \E s \in Pids, c \in Pids :
        /\ role[s] = "stop" /\ pc[s] = "probe"
        /\ role[c] = "child" /\ pc[c] = "exited"
        /\ pid[s] = pid[c] /\ pid[c] >= 100
        /\ seen[s].content = <<" ">> \o str(pid[c]) \o <<"\n">>

\* C13: whenever the payload has begun to run in a daemon, the first child
\* has already written the PID file with that daemon's pid (the write comes
\* before the payload, and so before the removal that follows the payload)
C13_WrittenBeforePayload ==
    \A g \in Pids :
        (role[g] = "daemon" /\ runs[g] > 0) => pc[parent[g]] = "exited"

\* C14: every os.remove(pid_file) that start or stop performs finds the file
\* present, however a stop interleaves with the daemon's own completion or
\* with another stop, and the daemon's completion with the first child's write
C14_RemoveFindsFile ==
    [][\A p \in Pids :
         (\/ Steps(p, "running") /\ pc'[p] # "exited"
          \/ Steps(p, "remove_stale") \/ Steps(p, "remove_term")) =>
           file.exists /\ pc'[p] # "crashed"]_vars

\* C15: when the target has gone (killed, ended by a signal, or finished by
\* itself) after stop's probe found it and before a terminate call of stop,
\* the first one included, that call reports no such process and stop goes
\* on to remove the PID file and return 0
C15_GoneIsSuccess ==
    [][\A s \in Pids :
         role[s] = "stop" =>
           /\ (Steps(s, "kill") /\ Targets(s, pid[s]) = {}) =>
                pc'[s] = "remove_term"
           /\ Steps(s, "remove_term") =>
                pc'[s] = "returned" /\ ret'[s] = <<0>> /\ ~file'.exists]_vars

C17_SigtermLeavesFile ==
    [][\A g \in Pids :
         (role[g] = "daemon" /\ Steps(g, "running") /\ pc'[g] = "exited") =>
           /\ file' = file /\ ret'[g] = <<>>
           /\ (file.exists /\ file.content = str(g)) =>
                file'.exists /\ file'.content = str(g) /\ ~Alive(g)']_vars

\* C17 happens: a daemon that ran the payload has exited on SIGTERM and the
\* PID file still names it
C17_StaleAfterSigterm ==
    \E g \in Pids :
        /\ role[g] = "daemon" /\ pc[g] = "exited" /\ runs[g] = 1
        /\ file.exists /\ file.content = str(g) /\ Stale(file)

\* C18: every stop ends, whatever its target does: it makes at most 10
\* terminate calls and at most 10 sleeps of 2 time units (20 in all), it
\* sends no signal after a terminate call has reported no such process, and
\* under fair scheduling it is over in the end
C18_StopTerminates ==
    /\ [](\A s \in Pids :
            role[s] = "stop" =>
              kills[s] <= 10 /\ sleeps[s] <= 10 /\ Slept(s) <= 20)
    /\ [][\A s \in Pids :
            (role[s] = "stop" /\ pc[s] \in Terminal \cup {"remove_term"}) =>
              /\ kills'[s] = kills[s] /\ probes'[s] = probes[s]
              /\ pc'[s] \in Terminal \cup {"remove_term"}]_vars
    /\ \A s \in Pids : (role[s] = "stop") ~> (pc[s] \in Terminal)

\* C18 happens: a stop has returned after its 10th terminate call found the
\* target gone, 9 sleeps behind it
C18_EndedAtLastCall ==
    \E s \in Pids :
        /\ role[s] = "stop" /\ pc[s] = "returned" /\ ret[s] = <<0>>
        /\ kills[s] = Attempts /\ sleeps[s] = Attempts - 1
        /\ Slept(s) = 18

\* the start command whose two forks made daemon g
Caller(g) == parent[parent[g]]

\* C19: the detach steps come in this order: first fork; in the first child
\* only, chdir("/"), setsid() and umask(0); second fork; in the grandchild
\* only, the redirection of stdout and stderr. So when the payload starts the
\* daemon is in a session made after the first fork, not the caller's, and
\* its two ancestors have exited or are on their way out, not waiting for it
C19_DetachOrder ==
    [][\A p \in Pids :
         /\ (pc[p] = "free" /\ role'[p] = "child") =>
              /\ role[parent'[p]] = "start" /\ pc[parent'[p]] = "fork1"
              /\ pc'[p] = "setsid"
              /\ sid'[p] = sid[parent'[p]] /\ cwd'[p] = cwd[parent'[p]]
              /\ umask'[p] = umask[parent'[p]]
         /\ (sid'[p] # sid[p] \/ cwd'[p] # cwd[p] \/ umask'[p] # umask[p]) =>
              \/ pc[p] = "free"
              \/ /\ role[p] = "child" /\ pc[p] = "setsid" /\ pc'[p] = "fork2"
                 /\ cwd'[p] = "/" /\ sid'[p] = p /\ umask'[p] = 0
         /\ (pc[p] = "free" /\ role'[p] = "daemon") =>
              /\ role[parent'[p]] = "child" /\ pc[parent'[p]] = "fork2"
              /\ sid[parent'[p]] = parent'[p]
              /\ pc'[p] = "redirect" /\ ~redirected'[p]
         /\ (redirected'[p] /\ ~redirected[p]) =>
              role[p] = "daemon" /\ pc[p] = "redirect"
         /\ (role'[p] = "daemon" /\ runs'[p] > 0) =>
              /\ redirected'[p]
              /\ sid'[p] = parent'[p] /\ sid'[p] # sid'[Caller(p)']
              /\ cwd'[p] = "/" /\ umask'[p] = 0
              /\ pc'[Caller(p)'] = "exited"
              /\ pc'[parent'[p]] \in {"create_open", "create_write", "exited"}]_vars

\* C19 happens: the payload runs in a daemon whose session is its parent's,
\* while that first child is still on its way to writing the PID file
C19_DaemonDetached ==
    \E g \in Pids :
        /\ role[g] = "daemon" /\ pc[g] = "running" /\ redirected[g]
        /\ sid[g] = parent[g] /\ sid[Caller(g)] = 0
        /\ cwd[g] = "/" /\ umask[g] = 0
        /\ pc[parent[g]] = "create_write" /\ pc[Caller(g)] = "exited"

\* C20: whenever stop returns 1 with its retry budget used up, its target is
\* still alive at that moment: a target that dies of any of the 10 terminate
\* calls, the 10th included, makes stop return 0 with the PID file removed
C20_ResultMatchesLiveness ==
    [][\A s \in Pids :
         (role[s] = "stop" /\ Steps(s, "sleep") /\ pc'[s] = "returned"
            /\ ret'[s] = <<1>>) =>
           Targets(s, pid[s])' # {}]_vars

====
